---- MODULE Spec2Model ----
(***************************************************************************)
(* A model of data_modules/not_dali.py: the transform selector             *)
(* (prepare_transforms), the dataset builder with its stratified           *)
(* subsampling (prepare_datasets), the loader wrapper                      *)
(* (prepare_dataloaders) and their composition (prepare_data).             *)
(*                                                                         *)
(* An image is its spatial size <<h, w>>.  A dataset root is the sequence  *)
(* of its per-class sample counts; a sample is <<file, label>>.  A         *)
(* data_fraction is the rational <<num, den>> with den > 0.  The library   *)
(* calls the module makes (torchvision transforms and datasets, sklearn's  *)
(* train_test_split, torch's DataLoader) are modelled by what they do to   *)
(* these values.                                                           *)
(***************************************************************************)
EXTENDS Integers, Sequences, FiniteSets, TLC

(***************************************************************************)
(* Bounds of the model.                                                    *)
(***************************************************************************)
\* most samples in one class folder of a dataset root
MaxPerClass == 5
\* data_fraction ranges over -1.0 and k / FracDen, k in 0 .. FracDen + 1
FracDen == 5
\* batch sizes 1 .. MaxBatch
MaxBatch == 2
\* seeds the training sampler may draw from torch's global generator
MaxSeeds == 2

\* random_state=42 of the train_test_split call
random_state == 42

(***************************************************************************)
(* Generic helpers.                                                        *)
(***************************************************************************)
RECURSIVE SumSeq(_)
SumSeq(s) == IF s = <<>> THEN 0 ELSE Head(s) + SumSeq(Tail(s))

Take(s, k) == SubSeq(s, 1, k)

RemoveAt(s, i) == SubSeq(s, 1, i - 1) \o SubSeq(s, i + 1, Len(s))

Range(s) == {s[i] : i \in DOMAIN s}

Min(a, b) == IF a <= b THEN a ELSE b

\* the element of a one-element set: Only({e(x) : x \in {v}}) is
\* LET x == v IN e(x) with v evaluated once
Only(S) == CHOOSE x \in S : TRUE

SetMax(S) == CHOOSE x \in S : \A y \in S : y <= x

\* the elements of a finite set of integers in increasing order
RECURSIVE SortedSeq(_)
SortedSeq(S) ==
    IF S = {} THEN <<>>
    ELSE LET m == CHOOSE x \in S : \A y \in S : x <= y
         IN <<m>> \o SortedSeq(S \ {m})

(***************************************************************************)
(* torchvision.transforms: what each operation does to an image's size.    *)
(***************************************************************************)
Tf(op, h, w, stats) == [op |-> op, h |-> h, w |-> w, stats |-> stats]

RandomResizedCrop(size) == Tf("RandomResizedCrop", size, size, "")
RandomHorizontalFlip == Tf("RandomHorizontalFlip", 0, 0, "")
ToTensor == Tf("ToTensor", 0, 0, "")
Normalize(stats) == Tf("Normalize", 0, 0, stats)
\* Resize(int): the shorter side becomes size, the aspect ratio is kept
Resize(size) == Tf("Resize", size, size, "")
\* Resize((h, w)): both sides are set
ResizeHW(h, w) == Tf("ResizeHW", h, w, "")
CenterCrop(size) == Tf("CenterCrop", size, size, "")

\* torchvision's output size of Resize(int): new_short, new_long =
\* size, int(size * long / short)
ResizedOutputSize(img, size) ==
    LET h == img[1]
        w == img[2]
    IN IF w <= h THEN <<(size * h) \div w, size>>
       ELSE <<size, (size * w) \div h>>

ApplyTransform(t, img) ==
    CASE t.op = "Resize" -> ResizedOutputSize(img, t.h)
      [] t.op = "ResizeHW" -> <<t.h, t.w>>
      [] t.op = "CenterCrop" -> <<t.h, t.w>>
      [] t.op = "RandomResizedCrop" -> <<t.h, t.w>>
      [] OTHER -> img

\* transforms.Compose: the operations in order
RECURSIVE Compose(_, _)
Compose(ts, img) ==
    IF ts = <<>> THEN img ELSE Compose(Tail(ts), ApplyTransform(Head(ts), img))

(***************************************************************************)
(* build_custom_pipeline and the pipelines of prepare_transforms.          *)
(***************************************************************************)
build_custom_pipeline ==
    [T_train |-> <<RandomResizedCrop(224), RandomHorizontalFlip, ToTensor,
                   Normalize("imagenet")>>,
     T_val |-> <<Resize(256), CenterCrop(224), ToTensor, Normalize("imagenet")>>]

cifar_pipeline ==
    [T_train |-> <<RandomResizedCrop(32), RandomHorizontalFlip, ToTensor,
                   Normalize("cifar")>>,
     T_val |-> <<ToTensor, Normalize("cifar")>>]

stl_pipeline ==
    [T_train |-> <<RandomResizedCrop(96), RandomHorizontalFlip, ToTensor,
                   Normalize("stl")>>,
     T_val |-> <<ResizeHW(96, 96), ToTensor, Normalize("stl")>>]

imagenet_pipeline ==
    [T_train |-> <<RandomResizedCrop(224), RandomHorizontalFlip, ToTensor,
                   Normalize("imagenet")>>,
     T_val |-> <<Resize(256), CenterCrop(224), ToTensor, Normalize("imagenet")>>]

\* imagenet32_pipeline without the final Resize(32) of its T_val
imagenet32_pipeline_noresize ==
    [T_train |-> <<RandomResizedCrop(32), RandomHorizontalFlip, ToTensor,
                   Normalize("cifar")>>,
     T_val |-> <<Resize(256), CenterCrop(224), ToTensor, Normalize("cifar")>>]

imagenet32_pipeline ==
    [T_train |-> <<RandomResizedCrop(32), RandomHorizontalFlip, ToTensor,
                   Normalize("cifar")>>,
     T_val |-> <<Resize(256), CenterCrop(224), Resize(32), ToTensor,
                 Normalize("cifar")>>]

custom_pipeline == build_custom_pipeline

pipelines ==
    [cifar10 |-> cifar_pipeline,
     cifar100 |-> cifar_pipeline,
     stl10 |-> stl_pipeline,
     imagenet100 |-> imagenet_pipeline,
     imagenet |-> imagenet_pipeline,
     custom |-> custom_pipeline,
     imagenet32 |-> imagenet32_pipeline]

(***************************************************************************)
(* The pseudo-random generators.  A generator is its state; the stream it  *)
(* produces is a function of the state alone.  np_stream stands for the    *)
(* seeding table of numpy's generator: which stream a seed starts is fixed *)
(* by the library and the same in every call.                              *)
(***************************************************************************)
Lcg(s) == (21 * s + 7) % 64

RandBelow(s, k) == (s \div 4) % k

\* numpy.random.RandomState(seed)
RandomState(seed, stream) == (seed + 11 * stream) % 64

\* rng.permutation(seq): a shuffled copy, and the generator after it
RECURSIVE PermutationFrom(_, _, _)
PermutationFrom(seq, s, acc) ==
    IF seq = <<>> THEN [out |-> acc, rng |-> s]
    ELSE Only({PermutationFrom(RemoveAt(seq, i), Lcg(s), Append(acc, seq[i])) :
                  i \in {1 + RandBelow(s, Len(seq))}})

Permutation(seq, s) == PermutationFrom(seq, s, <<>>)

\* rng.choice(inds, size=k, replace=False)
Choice(inds, k, s) ==
    LET p == Permutation(inds, s) IN [out |-> Take(p.out, k), rng |-> p.rng]

\* check_random_state(None): numpy's global generator
GlobalGenerator(np_state, stream) == [s |-> np_state, global |-> TRUE]

\* check_random_state(random_state) of the split: a generator of its own,
\* seeded anew in every call
SplitGenerator(np_state, stream) ==
    [s |-> RandomState(random_state, stream), global |-> FALSE]

(***************************************************************************)
(* sklearn.model_selection.train_test_split(files, labels,                 *)
(* train_size=data_fraction, stratify=labels, random_state=42).            *)
(***************************************************************************)
\* ceil(train_size * n_samples)
NTrainCeil(frac, n) == (frac[1] * n + frac[2] - 1) \div frac[2]

\* n_train = floor(train_size * n_samples)
NTrain(frac, n) == (frac[1] * n) \div frac[2]

RECURSIVE AddByRemainder(_, _, _, _, _)
AddByRemainder(floored, remainder, values, need, s) ==
    IF need = 0 \/ values = {} THEN [out |-> floored, rng |-> s]
    ELSE LET value == SetMax(values)
             inds == SortedSeq({i \in DOMAIN remainder : remainder[i] = value})
             add_now == Min(Len(inds), need)
         IN Only({AddByRemainder(
                      [i \in DOMAIN floored |->
                          IF i \in Range(ch.out) THEN floored[i] + 1 ELSE floored[i]],
                      remainder, values \ {value}, need - add_now, ch.rng) :
                  ch \in {Choice(inds, add_now, s)}})

\* _approximate_mode: n_draws spread over the classes in proportion to
\* class_counts; continuous[i] = class_counts[i] * n_draws / total is kept
\* as the quotient and remainder of class_counts[i] * n_draws by total
approximate_mode(class_counts, n_draws, s) ==
    LET total == SumSeq(class_counts)
        floored == [i \in DOMAIN class_counts |-> (class_counts[i] * n_draws) \div total]
        remainder == [i \in DOMAIN class_counts |-> (class_counts[i] * n_draws) % total]
        need_to_add == n_draws - SumSeq(floored)
    IN IF need_to_add > 0
       THEN AddByRemainder(floored, remainder, Range(remainder), need_to_add, s)
       ELSE [out |-> floored, rng |-> s]

\* the per-class loop of StratifiedShuffleSplit._iter_indices: class i's
\* indices are permuted and the first n_i[i] of them go to the train side
RECURSIVE TrainOfClasses(_, _, _, _, _)
TrainOfClasses(class_indices, n_i, i, s, train) ==
    IF i > Len(class_indices) THEN [out |-> train, rng |-> s]
    ELSE Only({TrainOfClasses(class_indices, n_i, i + 1, perm.rng,
                              train \o Take(perm.out, n_i[i])) :
                  perm \in {Permutation(class_indices[i], s)}})

\* the split once the sizes are valid: the train side's indices, permuted
StratifiedShuffleSplit(class_indices, class_counts, n_train, n_test, s) ==
    Only({Only({Only({Permutation(train.out, train.rng) :
                         train \in {TrainOfClasses(class_indices, n_i.out, 1, t_i.rng,
                                                   <<>>)}}) :
                   t_i \in {approximate_mode(
                               [i \in DOMAIN class_counts |-> class_counts[i] - n_i.out[i]],
                               n_test, n_i.rng)}}) :
             n_i \in {approximate_mode(class_counts, n_train, s)}})

\* the train side of the split of files, labels: [ok, files, labels, rng];
\* ok is FALSE where sklearn raises ValueError
train_test_split(files, labels, frac, s) ==
    LET n == Len(labels)
        n_train == NTrain(frac, n)
        n_test == n - n_train
        classes == SortedSeq(Range(labels))
        n_classes == Len(classes)
        bad == [ok |-> FALSE, files |-> <<>>, labels |-> <<>>, rng |-> s]
    IN IF ~(frac[1] > 0 /\ frac[1] < frac[2]) THEN bad
       ELSE IF n_train = 0 THEN bad
       ELSE Only({
           IF \E i \in 1 .. n_classes : Len(class_indices[i]) < 2 THEN bad
           ELSE IF n_train < n_classes \/ n_test < n_classes THEN bad
           ELSE Only({[ok |-> TRUE,
                       files |-> [k \in DOMAIN perm.out |-> files[perm.out[k]]],
                       labels |-> [k \in DOMAIN perm.out |-> labels[perm.out[k]]],
                       rng |-> perm.rng] :
                      perm \in {StratifiedShuffleSplit(
                                   class_indices,
                                   [i \in 1 .. n_classes |-> Len(class_indices[i])],
                                   n_train, n_test, s)}}) :
           class_indices \in {[i \in 1 .. n_classes |->
                                 SortedSeq({j \in DOMAIN labels : labels[j] = classes[i]})]}})

(***************************************************************************)
(* torchvision.datasets: what a constructed dataset object holds.  Only an *)
(* ImageFolder has a samples attribute, its list of (file, label) pairs in *)
(* class order; CIFAR10, CIFAR100 and STL10 keep their images in data.     *)
(***************************************************************************)
NoPipeline == <<Tf("None", 0, 0, "")>>

NoDataset ==
    [cls |-> "None", split |-> "", download |-> FALSE, transform |-> NoPipeline,
     has_samples |-> FALSE, samples |-> <<>>, data |-> <<>>]

\* the label of the j-th file of a root, classes and files in sorted order
RECURSIVE LabelOf(_, _, _)
LabelOf(root, j, c) ==
    IF j <= root[c] THEN c - 1 ELSE LabelOf(root, j - root[c], c + 1)

make_dataset(root) == [j \in 1 .. SumSeq(root) |-> <<j, LabelOf(root, j, 1)>>]

ImageFolder(root, transform) ==
    [cls |-> "ImageFolder", split |-> "", download |-> FALSE, transform |-> transform,
     has_samples |-> TRUE, samples |-> make_dataset(root), data |-> <<>>]

ArchiveDataset(cls, root, split, download, transform) ==
    [cls |-> cls, split |-> split, download |-> download, transform |-> transform,
     has_samples |-> FALSE, samples |-> <<>>, data |-> make_dataset(root)]

\* len(dataset)
DatasetLen(ds) == IF ds.has_samples THEN Len(ds.samples) ELSE Len(ds.data)

(***************************************************************************)
(* The names prepare_datasets accepts, and the dataset objects it builds.  *)
(***************************************************************************)
\* the list of line 210 without "imagenet32"
BuilderNamesBefore32 ==
    {"cifar10", "cifar100", "stl10", "imagenet", "imagenet100", "custom"}

\* the list of line 210
BuilderNames ==
    {"cifar10", "cifar100", "stl10", "imagenet", "imagenet100", "custom", "imagenet32"}

\* the STL10 training split honouring the flag
StlTrainDownloadFlag(download) == download

\* download= of the STL10 training split: download=True
StlTrainDownload(download) == TRUE

Construct(dataset, T_tr, T_v, train_data_path, val_data_path, download) ==
    IF dataset \in {"cifar10", "cifar100"}
    THEN LET DatasetClass == IF dataset = "cifar10" THEN "CIFAR10" ELSE "CIFAR100"
         IN [train |-> ArchiveDataset(DatasetClass, train_data_path, "train", download, T_tr),
             val |-> ArchiveDataset(DatasetClass, val_data_path, "test", download, T_v)]
    ELSE IF dataset = "stl10"
    THEN [train |-> ArchiveDataset("STL10", train_data_path, "train",
                                   StlTrainDownload(download), T_tr),
          val |-> ArchiveDataset("STL10", val_data_path, "test", download, T_v)]
    ELSE [train |-> ImageFolder(train_data_path, T_tr),
          val |-> ImageFolder(val_data_path, T_v)]

\* data_fraction >= 0
FractionPositiveOrZero(frac) == frac[1] >= 0

\* if data_fraction > 0
FractionPositive(frac) == frac[1] > 0

\* data_fraction <= 1
FractionAtMostOne(frac) == frac[1] <= frac[2]

\* assert data_fraction < 1
FractionBelowOne(frac) == frac[1] < frac[2]

(***************************************************************************)
(* torch.utils.data.DataLoader: a loader refers to its dataset and reads   *)
(* its length when a pass starts.                                          *)
(***************************************************************************)
NoLoader == [dataset |-> "None", batch_size |-> 0, shuffle |-> FALSE, drop_last |-> FALSE]

DataLoader(dataset, batch_size, shuffle, drop_last) ==
    [dataset |-> dataset, batch_size |-> batch_size, shuffle |-> shuffle,
     drop_last |-> drop_last]

\* a training loader with drop_last=False
TrainLoaderKeepLast(batch_size) == DataLoader("train_dataset", batch_size, TRUE, FALSE)

\* shuffle=True, drop_last=True
TrainLoader(batch_size) == DataLoader("train_dataset", batch_size, TRUE, TRUE)

\* not shuffled, drop_last=False
ValLoader(batch_size) == DataLoader("val_dataset", batch_size, FALSE, FALSE)

\* torch.Generator().manual_seed(seed) of RandomSampler
TorchGenerator(seed) == (13 * seed + 5) % 64

\* the order in which a pass visits the indices 1 .. n
SamplerOrder(loader, n, seed) ==
    LET seq == [i \in 1 .. n |-> i]
    IN IF loader.shuffle THEN Permutation(seq, TorchGenerator(seed)).out ELSE seq

\* BatchSampler: full batches in order, the rest as a last batch unless drop_last
RECURSIVE BatchSampler(_, _, _)
BatchSampler(order, batch_size, drop_last) ==
    IF Len(order) >= batch_size
    THEN <<Take(order, batch_size)>>
             \o BatchSampler(SubSeq(order, batch_size + 1, Len(order)), batch_size, drop_last)
    ELSE IF Len(order) > 0 /\ ~drop_last THEN <<order>> ELSE <<>>

(***************************************************************************)
(* The state: one caller, the call it makes and the call's locals.         *)
(***************************************************************************)
VARIABLES
    args,           \* the public function called and its arguments
    pc,             \* idle, transforms, datasets, loaders, returned, raised
    T_train, T_val, \* the pipelines prepare_transforms returned
    train_dataset,  \* the dataset objects of prepare_datasets
    val_dataset,
    train_loader,   \* the loaders of prepare_dataloaders
    val_loader,
    exc,            \* the exception that ended the call, and the line raising it
    np_global,      \* numpy's global generator
    np_stream,      \* numpy's seeding table (fixed)
    train_pass,     \* the batches one pass of train_loader yielded
    val_pass,       \* the batches one pass of val_loader yielded
    img,            \* an image put through T_val by the caller
    prev            \* the outcome of the caller's previous, identical call

vars == <<args, pc, T_train, T_val, train_dataset, val_dataset, train_loader,
          val_loader, exc, np_global, np_stream, train_pass, val_pass, img, prev>>

\* the names a caller may pass: the recognized ones and one that is not
DatasetNames == BuilderNames \cup DOMAIN pipelines \cup {"mnist"}

\* a root with one or two class folders
DatasetRoots ==
    {<<a>> : a \in 1 .. MaxPerClass} \cup {<<a, b>> : a, b \in 1 .. MaxPerClass}

ValRoots == {<<a>> : a \in 1 .. MaxBatch + 1}

DefaultFraction == <<0 - FracDen, FracDen>>

Fractions == {DefaultFraction} \cup {<<k, FracDen>> : k \in 0 .. FracDen + 1}

ImageSides == {20, 32, 96, 224, 300}

ImageSizes == ImageSides \X ImageSides

NoExc == [type |-> "None", line |-> 0]

NoPass == [done |-> FALSE, batches |-> <<>>]

NoImg == [applied |-> FALSE, in |-> <<0, 0>>, out |-> <<0, 0>>]

NoPrev == [valid |-> FALSE, exc |-> NoExc, samples |-> <<>>]

NoArgs ==
    [fn |-> "None", dataset |-> "", train_data_path |-> <<>>, val_data_path |-> <<>>,
     batch_size |-> 0, download |-> TRUE, data_fraction |-> DefaultFraction]

Init ==
    /\ args = NoArgs
    /\ pc = "idle"
    /\ T_train = NoPipeline
    /\ T_val = NoPipeline
    /\ train_dataset = NoDataset
    /\ val_dataset = NoDataset
    /\ train_loader = NoLoader
    /\ val_loader = NoLoader
    /\ exc = NoExc
    /\ np_global = 0
    /\ np_stream \in {0, 1}
    /\ train_pass = NoPass
    /\ val_pass = NoPass
    /\ img = NoImg
    /\ prev = NoPrev

\* the first statement of a public function
FirstStep(fn) == IF fn = "prepare_datasets" THEN "datasets" ELSE "transforms"

\* prepare_data calling prepare_dataloaders before prepare_datasets
prepare_data_loaders_first(fn, step) ==
    IF fn = "prepare_data"
    THEN CASE step = "transforms" -> "loaders"
           [] step = "loaders" -> "datasets"
           [] OTHER -> "returned"
    ELSE "returned"

\* the statement after `step`: prepare_data runs prepare_transforms,
\* prepare_datasets and prepare_dataloaders in this order and returns; the
\* other public functions return after their one step
prepare_data(fn, step) ==
    IF fn = "prepare_data"
    THEN CASE step = "transforms" -> "datasets"
           [] step = "datasets" -> "loaders"
           [] OTHER -> "returned"
    ELSE "returned"

\* an exception leaves the call: nothing after the raising statement runs
Raise(type, line) ==
    /\ exc' = [type |-> type, line |-> line]
    /\ pc' = "raised"

CallTransforms ==
    /\ pc = "idle"
    /\ \E d \in DatasetNames :
        /\ args' = [NoArgs EXCEPT !.fn = "prepare_transforms", !.dataset = d]
        /\ pc' = FirstStep("prepare_transforms")
        /\ UNCHANGED <<T_train, T_val, train_dataset, val_dataset, train_loader,
                       val_loader, exc, np_global, np_stream, train_pass, val_pass,
                       img, prev>>

\* prepare_datasets called with pipelines of the caller's own
CallDatasets ==
    /\ pc = "idle"
    /\ \E d \in DatasetNames, tr \in DatasetRoots, vr \in ValRoots, dl \in BOOLEAN,
          f \in Fractions :
        /\ args' = [NoArgs EXCEPT !.fn = "prepare_datasets", !.dataset = d,
                                  !.train_data_path = tr, !.val_data_path = vr,
                                  !.download = dl, !.data_fraction = f]
        /\ pc' = FirstStep("prepare_datasets")
        /\ T_train' = custom_pipeline.T_train
        /\ T_val' = custom_pipeline.T_val
        /\ UNCHANGED <<train_dataset, val_dataset, train_loader, val_loader, exc,
                       np_global, np_stream, train_pass, val_pass, img, prev>>

CallData ==
    /\ pc = "idle"
    /\ \E d \in DatasetNames, tr \in DatasetRoots, vr \in ValRoots, dl \in BOOLEAN,
          f \in Fractions, b \in 1 .. MaxBatch :
        /\ args' = [fn |-> "prepare_data", dataset |-> d, train_data_path |-> tr,
                    val_data_path |-> vr, batch_size |-> b, download |-> dl,
                    data_fraction |-> f]
        /\ pc' = FirstStep("prepare_data")
        /\ UNCHANGED <<T_train, T_val, train_dataset, val_dataset, train_loader,
                       val_loader, exc, np_global, np_stream, train_pass, val_pass,
                       img, prev>>

prepare_transforms ==
    /\ pc = "transforms"
    /\ IF args.dataset \in DOMAIN pipelines
       THEN /\ T_train' = pipelines[args.dataset].T_train
            /\ T_val' = pipelines[args.dataset].T_val
            /\ pc' = prepare_data(args.fn, "transforms")
            /\ exc' = exc
       ELSE /\ Raise("AssertionError", 164)
            /\ UNCHANGED <<T_train, T_val>>
    /\ UNCHANGED <<args, train_dataset, val_dataset, train_loader, val_loader,
                   np_global, np_stream, train_pass, val_pass, img, prev>>

\* lines 246-257 on the datasets built: the outcome as
\* [type, line, train, np]; type "None" is the normal end
Subsample(train, frac, np_state, stream) ==
    IF ~FractionPositive(frac)
    THEN [type |-> "None", line |-> 0, train |-> train, np |-> np_state]
    ELSE IF ~FractionBelowOne(frac)
    THEN [type |-> "AssertionError", line |-> 247, train |-> train, np |-> np_state]
    ELSE IF ~train.has_samples
    THEN [type |-> "AttributeError", line |-> 248, train |-> train, np |-> np_state]
    ELSE Only({Only({
        IF ~split.ok
        THEN [type |-> "ValueError", line |-> 254, train |-> train,
              np |-> IF gen.global THEN split.rng ELSE np_state]
        ELSE [type |-> "None", line |-> 0,
              train |-> [train EXCEPT !.samples =
                            [k \in DOMAIN split.files |->
                                <<split.files[k], split.labels[k]>>]],
              np |-> IF gen.global THEN split.rng ELSE np_state] :
        split \in {train_test_split([i \in DOMAIN train.samples |-> train.samples[i][1]],
                                    [i \in DOMAIN train.samples |-> train.samples[i][2]],
                                    frac, gen.s)}}) :
        gen \in {SplitGenerator(np_state, stream)}})

prepare_datasets ==
    /\ pc = "datasets"
    /\ IF args.dataset \notin BuilderNames
       THEN /\ Raise("AssertionError", 210)
            /\ UNCHANGED <<train_dataset, val_dataset, np_global>>
       ELSE \E built \in {Construct(args.dataset, T_train, T_val, args.train_data_path,
                                     args.val_data_path, args.download)} :
            \E out \in {Subsample(built.train, args.data_fraction, np_global,
                                  np_stream)} :
                /\ train_dataset' = out.train
                /\ val_dataset' = built.val
                /\ np_global' = out.np
                /\ IF out.type = "None"
                   THEN pc' = prepare_data(args.fn, "datasets") /\ exc' = exc
                   ELSE Raise(out.type, out.line)
    /\ UNCHANGED <<args, T_train, T_val, train_loader, val_loader, np_stream,
                   train_pass, val_pass, img, prev>>

prepare_dataloaders ==
    /\ pc = "loaders"
    /\ train_loader' = TrainLoader(args.batch_size)
    /\ val_loader' = ValLoader(args.batch_size)
    /\ pc' = prepare_data(args.fn, "loaders")
    /\ UNCHANGED <<args, T_train, T_val, train_dataset, val_dataset, exc, np_global,
                   np_stream, train_pass, val_pass, img, prev>>

\* one pass over the training loader the call returned
IterTrain ==
    /\ pc = "returned"
    /\ train_loader # NoLoader
    /\ ~train_pass.done
    /\ \E seed \in 0 .. MaxSeeds - 1 :
        /\ train_pass' =
               [done |-> TRUE,
                batches |-> BatchSampler(
                    SamplerOrder(train_loader, DatasetLen(train_dataset), seed),
                    train_loader.batch_size, train_loader.drop_last)]
        /\ UNCHANGED <<args, pc, T_train, T_val, train_dataset, val_dataset,
                       train_loader, val_loader, exc, np_global, np_stream, val_pass,
                       img, prev>>

\* one pass over the validation loader the call returned
IterVal ==
    /\ pc = "returned"
    /\ val_loader # NoLoader
    /\ ~val_pass.done
    /\ val_pass' =
           [done |-> TRUE,
            batches |-> BatchSampler(
                SamplerOrder(val_loader, DatasetLen(val_dataset), 0),
                val_loader.batch_size, val_loader.drop_last)]
    /\ UNCHANGED <<args, pc, T_train, T_val, train_dataset, val_dataset, train_loader,
                   val_loader, exc, np_global, np_stream, train_pass, img, prev>>

\* the caller of prepare_transforms puts an image through T_val
ApplyTVal ==
    /\ pc = "returned"
    /\ args.fn = "prepare_transforms"
    /\ ~img.applied
    /\ \E size \in ImageSizes :
        /\ img' = [applied |-> TRUE, in |-> size, out |-> Compose(T_val, size)]
        /\ UNCHANGED <<args, pc, T_train, T_val, train_dataset, val_dataset,
                       train_loader, val_loader, exc, np_global, np_stream, train_pass,
                       val_pass, prev>>

\* the caller of prepare_datasets repeats the call with the same arguments, once
CallAgain ==
    /\ pc \in {"returned", "raised"}
    /\ args.fn = "prepare_datasets"
    /\ ~prev.valid
    /\ prev' = [valid |-> TRUE, exc |-> exc, samples |-> train_dataset.samples]
    /\ pc' = FirstStep(args.fn)
    /\ UNCHANGED <<T_train, T_val>>
    /\ train_dataset' = NoDataset
    /\ val_dataset' = NoDataset
    /\ train_loader' = NoLoader
    /\ val_loader' = NoLoader
    /\ exc' = NoExc
    /\ train_pass' = NoPass
    /\ val_pass' = NoPass
    /\ UNCHANGED <<args, np_global, np_stream, img>>

Next ==
    \/ CallTransforms
    \/ CallDatasets
    \/ CallData
    \/ prepare_transforms
    \/ prepare_datasets
    \/ prepare_dataloaders
    \/ IterTrain
    \/ IterVal
    \/ ApplyTVal
    \/ CallAgain

Spec == Init /\ [][Next]_vars

(***************************************************************************)
(* The properties.  What they share: the names the specification           *)
(* recognizes, the inputs of the current call and how far it has come.     *)
(***************************************************************************)
RecognizedNames ==
    {"cifar10", "cifar100", "stl10", "imagenet", "imagenet100", "imagenet32", "custom"}

FolderNames == {"imagenet", "imagenet100", "imagenet32", "custom"}

\* prepare_transforms has run in the current call
TransformsActed ==
    /\ args.fn \in {"prepare_transforms", "prepare_data"}
    /\ pc \notin {"idle", "transforms"}

\* prepare_datasets has run in the current call
DatasetsActed ==
    \/ args.fn = "prepare_datasets" /\ pc \in {"returned", "raised"}
    \/ /\ args.fn = "prepare_data"
       /\ pc \in {"loaders", "returned"} \/ (pc = "raised" /\ exc.line # 164)

ProperFraction == args.data_fraction[1] > 0 /\ args.data_fraction[1] < args.data_fraction[2]

\* the training root's size, per-class counts and sample list
NAll == SumSeq(args.train_data_path)

\* floor(data_fraction * n)
FloorShare == (args.data_fraction[1] * NAll) \div args.data_fraction[2]

\* the stratified split can be made: a sample is kept, every class has two
\* members, and each side has room for one sample of every class
SplitFeasible ==
    /\ FloorShare >= 1
    /\ \A c \in DOMAIN args.train_data_path : args.train_data_path[c] >= 2
    /\ FloorShare >= Len(args.train_data_path)
    /\ NAll - FloorShare >= Len(args.train_data_path)

OriginalSamples == make_dataset(args.train_data_path)

\* how many retained samples carry the label of class folder c
Retained(c) ==
    Cardinality({k \in DOMAIN train_dataset.samples : train_dataset.samples[k][2] = c - 1})

Abs(x) == IF x < 0 THEN 0 - x ELSE x

RECURSIVE Concat(_)
Concat(ss) == IF ss = <<>> THEN <<>> ELSE Head(ss) \o Concat(Tail(ss))

\* C1: a name outside the seven recognized ones makes prepare_transforms and
\* prepare_datasets end in their name assertion with nothing returned; a
\* recognized name never trips either name assertion.
C1_NameAssertions ==
    /\ (TransformsActed /\ args.dataset \notin RecognizedNames) =>
           /\ pc = "raised"
           /\ exc = [type |-> "AssertionError", line |-> 164]
           /\ T_train = NoPipeline /\ T_val = NoPipeline
    /\ (DatasetsActed /\ args.dataset \notin RecognizedNames) =>
           /\ pc = "raised"
           /\ exc = [type |-> "AssertionError", line |-> 210]
           /\ train_dataset = NoDataset /\ val_dataset = NoDataset
    /\ args.dataset \in RecognizedNames =>
           ~(exc.type = "AssertionError" /\ exc.line \in {164, 210})
    /\ (TransformsActed /\ args.dataset \in RecognizedNames) =>
           pc # "raised" \/ args.fn = "prepare_data"

C1_Witness ==
    /\ args.fn = "prepare_datasets"
    /\ args.dataset = "mnist"
    /\ pc = "raised"
    /\ exc.line = 210

\* C2: with a recognized name and data_fraction >= 1, prepare_datasets ends
\* in the assertion of line 247, returns nothing, and the training dataset
\* still holds its full sample list.
C2_FractionAssertion ==
    (DatasetsActed /\ args.dataset \in RecognizedNames
        /\ args.data_fraction[1] >= args.data_fraction[2]) =>
        /\ pc = "raised"
        /\ exc = [type |-> "AssertionError", line |-> 247]
        /\ train_loader = NoLoader
        /\ DatasetLen(train_dataset) = NAll
        /\ train_dataset.has_samples => train_dataset.samples = OriginalSamples

C2_Witness ==
    /\ pc = "raised"
    /\ exc.line = 247
    /\ args.dataset = "imagenet"
    /\ args.data_fraction = <<FracDen, FracDen>>
    /\ train_dataset.samples = OriginalSamples

\* what C3 says of the retained list apart from the per-class counts: its
\* length is floor(data_fraction * n) and its entries are pairs of the
\* original list, none repeated
SubsampleOfOriginal ==
    /\ Len(train_dataset.samples) = FloorShare
    /\ \A k \in DOMAIN train_dataset.samples :
           train_dataset.samples[k] \in Range(OriginalSamples)
    /\ \A j, k \in DOMAIN train_dataset.samples :
           train_dataset.samples[j] = train_dataset.samples[k] => j = k

C3_Case ==
    /\ DatasetsActed
    /\ args.dataset \in FolderNames
    /\ ProperFraction
    /\ SplitFeasible

\* C3 as claimed: a folder-backed training set, 0 < data_fraction < 1 and a
\* feasible split leave floor(data_fraction * n) distinct original pairs, and
\* every class's retained count is less than 1 away from data_fraction times
\* its original count.
C3_Original ==
    C3_Case =>
        /\ pc # "raised"
        /\ SubsampleOfOriginal
        /\ \A c \in DOMAIN args.train_data_path :
               Abs(Retained(c) * args.data_fraction[2]
                       - args.data_fraction[1] * args.train_data_path[c])
                   < args.data_fraction[2]

\* C3 amended: as claimed for the length and the entries; every class's
\* retained count is less than 1 away from its share of the retained total,
\* floor(data_fraction * n) * count / n, and so less than 2 away from
\* data_fraction times its original count.
C3_Amended ==
    C3_Case =>
        /\ pc # "raised"
        /\ SubsampleOfOriginal
        /\ \A c \in DOMAIN args.train_data_path :
               /\ Abs(Retained(c) * NAll - FloorShare * args.train_data_path[c]) < NAll
               /\ Abs(Retained(c) * args.data_fraction[2]
                          - args.data_fraction[1] * args.train_data_path[c])
                      < 2 * args.data_fraction[2]

C3_Witness ==
    /\ C3_Case
    /\ pc = "returned"
    /\ args.train_data_path = <<2, 5>>
    /\ args.data_fraction = <<2, 5>>
    /\ Len(train_dataset.samples) = 2
    /\ Retained(2) = 1

\* C4: prepare_datasets changes nothing but the training dataset's sample
\* list: the validation dataset holds what its root holds for every
\* data_fraction, and for data_fraction <= 0 the call returns the training
\* dataset with all of its samples.
C4_Frame ==
    (DatasetsActed /\ args.dataset \in RecognizedNames) =>
        /\ val_dataset =
               Construct(args.dataset, T_train, T_val, args.train_data_path,
                         args.val_data_path, args.download).val
        /\ DatasetLen(val_dataset) = SumSeq(args.val_data_path)
        /\ [train_dataset EXCEPT !.samples = <<>>] =
               [Construct(args.dataset, T_train, T_val, args.train_data_path,
                          args.val_data_path, args.download).train
                   EXCEPT !.samples = <<>>]
        /\ args.data_fraction[1] <= 0 =>
               /\ pc # "raised"
               /\ DatasetLen(train_dataset) = NAll
               /\ train_dataset.has_samples => train_dataset.samples = OriginalSamples

C4_Witness ==
    /\ DatasetsActed
    /\ pc = "returned"
    /\ args.dataset = "custom"
    /\ args.data_fraction = <<0, FracDen>>
    /\ Len(train_dataset.samples) = 2 * MaxPerClass
    /\ DatasetLen(val_dataset) = MaxBatch + 1

\* C5 as claimed: for each of the seven recognized names, a call with
\* 0 < data_fraction < 1 and a feasible split reads the training dataset's
\* (file, label) list and returns with the list replaced by the subsample.
C5_AllNames ==
    (DatasetsActed /\ args.dataset \in RecognizedNames /\ ProperFraction
        /\ SplitFeasible) =>
        /\ pc # "raised"
        /\ train_dataset.has_samples
        /\ Len(train_dataset.samples) = FloorShare

\* C6: a repeated prepare_datasets call on the same root with the same
\* data_fraction in (0, 1) ends as the first did, with the same sample list
\* in the same order, and numpy's global generator is left as it was.
C6_Deterministic ==
    (args.fn = "prepare_datasets" /\ prev.valid /\ DatasetsActed /\ ProperFraction) =>
        /\ exc = prev.exc
        /\ train_dataset.samples = prev.samples
        /\ np_global = 0

C6_Witness ==
    /\ args.fn = "prepare_datasets"
    /\ prev.valid
    /\ pc = "returned"
    /\ ProperFraction
    /\ args.dataset = "imagenet100"
    /\ Len(train_dataset.samples) >= 3
    /\ train_dataset.samples # SubSeq(OriginalSamples, 1, Len(train_dataset.samples))

\* C7: one pass of the training loader over n samples yields floor(n / b)
\* batches of b distinct indices each; one pass of the validation loader
\* yields ceil(n / b) batches that put together are 1 .. n in order, all of
\* size b but the last, which has n mod b entries when b does not divide n.
C7_Batches ==
    /\ train_pass.done =>
           LET n == DatasetLen(train_dataset)
               b == args.batch_size
               all == Concat(train_pass.batches)
           IN /\ Len(train_pass.batches) = n \div b
              /\ \A k \in DOMAIN train_pass.batches : Len(train_pass.batches[k]) = b
              /\ Range(all) \subseteq 1 .. n
              /\ Cardinality(Range(all)) = Len(all)
    /\ val_pass.done =>
           LET n == DatasetLen(val_dataset)
               b == args.batch_size
               m == Len(val_pass.batches)
           IN /\ m = (n + b - 1) \div b
              /\ Concat(val_pass.batches) = [i \in 1 .. n |-> i]
              /\ \A k \in 1 .. m - 1 : Len(val_pass.batches[k]) = b
              /\ n % b # 0 => Len(val_pass.batches[m]) = n % b
              /\ n % b = 0 => Len(val_pass.batches[m]) = b

C7_Witness ==
    /\ train_pass.done
    /\ val_pass.done
    /\ args.batch_size = 2
    /\ DatasetLen(train_dataset) = 5
    /\ DatasetLen(val_dataset) = 3
    /\ Len(train_pass.batches) = 2
    /\ val_pass.batches = <<<<1, 2>>, <<3>>>>

\* the input resolution each recognized dataset expects
ExpectedSize(dataset) ==
    IF dataset \in {"cifar10", "cifar100", "imagenet32"} THEN <<32, 32>>
    ELSE IF dataset = "stl10" THEN <<96, 96>>
    ELSE <<224, 224>>

\* C8 as claimed: for every recognized name and every input size the
\* validation pipeline's output has the dataset's expected size.
C8_Original == img.applied => img.out = ExpectedSize(args.dataset)

\* C8 amended: that holds for stl10, imagenet, imagenet100, imagenet32 and
\* custom; the cifar10 and cifar100 validation pipeline does not resize, its
\* output has the size of its input, 32x32 exactly for a 32x32 input.
C8_Amended ==
    img.applied =>
        IF args.dataset \in {"cifar10", "cifar100"}
        THEN img.out = img.in
        ELSE img.out = ExpectedSize(args.dataset)

C8_Witness ==
    /\ img.applied
    /\ args.dataset = "imagenet32"
    /\ img.in = <<20, 300>>
    /\ img.out = <<32, 32>>

\* C9: cifar10 and cifar100 pass the download flag to both datasets; stl10
\* always downloads the training split and passes the flag for the
\* validation split; the folder-backed names never request a download.
C9_Downloads ==
    (DatasetsActed /\ args.dataset \in RecognizedNames) =>
        /\ args.dataset \in {"cifar10", "cifar100"} =>
               train_dataset.download = args.download
                   /\ val_dataset.download = args.download
        /\ args.dataset = "stl10" =>
               train_dataset.download /\ val_dataset.download = args.download
        /\ args.dataset \in FolderNames =>
               ~train_dataset.download /\ ~val_dataset.download

C9_Witness ==
    /\ DatasetsActed
    /\ args.dataset = "stl10"
    /\ ~args.download
    /\ train_dataset.download
    /\ ~val_dataset.download

\* the steps of a prepare_data call, in order
DataSteps ==
    {<<"idle", "transforms">>, <<"transforms", "datasets">>, <<"datasets", "loaders">>,
     <<"loaders", "returned">>, <<"transforms", "raised">>, <<"datasets", "raised">>}

\* C10: a prepare_data call runs selection, construction with its
\* subsampling, and loader creation in this order: there is no loader before
\* construction has ended, none after a failure, and once a loader exists the
\* training dataset is not written again.
C10_Sequential ==
    /\ [](args.fn = "prepare_data" =>
            /\ pc \in {"transforms", "datasets", "loaders", "raised"} =>
                   train_loader = NoLoader /\ val_loader = NoLoader
            /\ pc \in {"transforms"} => train_dataset = NoDataset
            /\ pc \in {"loaders", "returned"} =>
                   /\ T_val # NoPipeline
                   /\ train_dataset # NoDataset /\ val_dataset # NoDataset
            /\ pc = "returned" => train_loader # NoLoader /\ val_loader # NoLoader)
    /\ [][args'.fn = "prepare_data" =>
            /\ pc' # pc => <<pc, pc'>> \in DataSteps
            /\ train_loader # NoLoader =>
                   train_dataset' = train_dataset /\ val_dataset' = val_dataset]_vars

C10_Witness ==
    /\ args.fn = "prepare_data"
    /\ pc = "returned"
    /\ train_loader # NoLoader
    /\ ProperFraction
    /\ Len(train_dataset.samples) < NAll
    /\ train_pass.done

====
